---- MODULE Spec2Model ----
(***************************************************************************)
(* A model of the currencyapi client: the URL builder of src/utils.rs, the *)
(* six request methods of src/api/mod.rs and the decoding of a response    *)
(* body into models::DetailsResponse.                                      *)
(*                                                                         *)
(* Text is a sequence of tokens.  A token is one character ("/", "&", "k") *)
(* or a run of unreserved characters that the code writes as a literal     *)
(* ("apikey", "base_currency", "v3"); such a run is never split or changed *)
(* by the conversions below, which work character by character.            *)
(* An Option is a sequence of length 0 (None) or 1 (Some).                 *)
(***************************************************************************)
EXTENDS Integers, Sequences, FiniteSets, TLC

VARIABLES
    settings,   \* Option<Settings>: None before Currencyapi::new, then shared
    newArg,     \* the argument Currencyapi::new was called with (history)
    newErr,     \* the error Currencyapi::new returned, if any
    pc,         \* per call slot: "idle", "sending", "reading", "done"
    call,       \* per call slot: the operation and its arguments
    request,    \* per call slot: the URL of the GET issued by the invocation
    gets,       \* per call slot: number of GETs issued by the invocation
    steps,      \* per call slot: the steps the invocation has run, in order
    served,     \* per call slot: what the server sent in reply (status, body)
    result,     \* per call slot: what the invocation returned
    ukey,       \* URL builder harness: the api_key argument
    upath,      \* URL builder harness: the with_path argument (an Option)
    uout        \* URL builder harness: Option of construct_base_url's result

vars == <<settings, newArg, newErr, pc, call, request, gets, steps, served,
          result, ukey, upath, uout>>

clientVars == <<settings, newArg, newErr, pc, call, request, gets, steps,
                served, result>>

builderVars == <<ukey, upath, uout>>

----------------------------------------------------------------------------
(* Bounds of the builder harness and of the concurrent specification.      *)

MaxKeyLen == 2

MaxPathLen == 4

NumTasks == 2

----------------------------------------------------------------------------
(* Options and text.                                                       *)

None == <<>>

Some(x) == <<x>>

IsNone(o) == Len(o) = 0

IsSome(o) == Len(o) = 1

\* All texts over the alphabet `chars` of length at most n.
Texts(chars, n) == UNION {[1..k -> chars] : k \in 0..n}

TrimStartKept(s, c) == s

RECURSIVE TrimStartMatches(_, _)
TrimStartMatches(s, c) ==
    IF Len(s) > 0 /\ Head(s) = c THEN TrimStartMatches(Tail(s), c) ELSE s

RECURSIVE TrimEndMatches(_, _)
TrimEndMatches(s, c) ==
    IF Len(s) > 0 /\ s[Len(s)] = c
    THEN TrimEndMatches(SubSeq(s, 1, Len(s) - 1), c)
    ELSE s

RECURSIVE Flatten(_)
Flatten(ss) == IF Len(ss) = 0 THEN <<>> ELSE Head(ss) \o Flatten(Tail(ss))

----------------------------------------------------------------------------
(* Percent-encoding.                                                       *)

\* The two hex digits of the characters of the model's alphabets that are
\* outside the unreserved set.
PctCode ==
    [c \in {" ", "#", "%", "&", "+", ",", "/", "=", "?"} |->
        CASE c = " " -> <<"2", "0">>
          [] c = "#" -> <<"2", "3">>
          [] c = "%" -> <<"2", "5">>
          [] c = "&" -> <<"2", "6">>
          [] c = "+" -> <<"2", "B">>
          [] c = "," -> <<"2", "C">>
          [] c = "/" -> <<"2", "F">>
          [] c = "=" -> <<"3", "D">>
          [] c = "?" -> <<"3", "F">>]

\* application/x-www-form-urlencoded byte serializer: unreserved characters
\* as they are, a space as "+", anything else as %XX.
FormEncodeCharIdentity(c) == <<c>>

FormEncodeChar(c) ==
    IF c = " " THEN <<"+">>
    ELSE IF c \in DOMAIN PctCode THEN <<"%">> \o PctCode[c]
    ELSE <<c>>

FormEncode(s) == Flatten([i \in 1..Len(s) |-> FormEncodeChar(s[i])])

\* The path percent-encode set, as a setter applies it: "?", "#" and a space
\* are encoded, "%" and "/"-free text are kept.
PathEncodeChar(c) ==
    IF c \in {" ", "#", "?"} THEN <<"%">> \o PctCode[c] ELSE <<c>>

PathEncode(s) == Flatten([i \in 1..Len(s) |-> PathEncodeChar(s[i])])

----------------------------------------------------------------------------
(* Url: parsing the base literal, set_path, query_pairs_mut().append_pair. *)

BASE_URL == <<"https", ":", "/", "/", "api.currencyapi.com", "/", "v3", "/">>

\* One path segment is finished: a ".." segment shortens the path, a "."
\* segment is dropped, and either one leaves an empty last segment when it
\* ends the input.
FinishSegment(segs, cur, terminated) ==
    IF cur = <<".", ".">>
    THEN LET popped == IF Len(segs) = 0 THEN segs
                       ELSE SubSeq(segs, 1, Len(segs) - 1)
         IN  IF terminated THEN popped ELSE Append(popped, <<>>)
    ELSE IF cur = <<".">>
    THEN IF terminated THEN segs ELSE Append(segs, <<>>)
    ELSE Append(segs, PathEncode(cur))

RECURSIVE ParseSegments(_, _, _)
ParseSegments(rest, cur, segs) ==
    IF Len(rest) = 0 THEN FinishSegment(segs, cur, FALSE)
    ELSE IF Head(rest) = "/"
    THEN ParseSegments(Tail(rest), <<>>, FinishSegment(segs, cur, TRUE))
    ELSE ParseSegments(Tail(rest), Append(cur, Head(rest)), segs)

SerializePath(segs) == Flatten([i \in 1..Len(segs) |-> <<"/">> \o segs[i]])

\* The path of a special-scheme URL as the parser leaves it.
ParsePath(input) ==
    LET start == IF Len(input) > 0 /\ Head(input) = "/" THEN Tail(input)
                 ELSE input
    IN  SerializePath(ParseSegments(start, <<>>, <<>>))

NoUrl == [scheme |-> "", host |-> "", path |-> <<>>, query |-> None]

UrlParse(s) ==
    IF /\ Len(s) >= 5
       /\ s[1] \in {"http", "https"}
       /\ s[2] = ":" /\ s[3] = "/" /\ s[4] = "/"
       /\ s[5] # "/"
    THEN [ok |-> TRUE,
          url |-> [scheme |-> s[1], host |-> s[5],
                   path |-> ParsePath(SubSeq(s, 6, Len(s))),
                   query |-> None]]
    ELSE [ok |-> FALSE, url |-> NoUrl]

SetPath(url, path) == [url EXCEPT !.path = ParsePath(path)]

AppendPair(url, name, value) ==
    LET pair == FormEncode(name) \o <<"=">> \o FormEncode(value)
        old  == IF IsNone(url.query) THEN <<>> ELSE url.query[1]
        sep  == IF Len(old) > 0 THEN <<"&">> ELSE <<>>
    IN  [url EXCEPT !.query = Some(old \o sep \o pair)]

construct_base_url(api_key, with_path) ==
    LET parsed == UrlParse(BASE_URL)
    IN  IF ~parsed.ok
        THEN [ok |-> FALSE, err |-> "UrlConstruction", url |-> NoUrl]
        ELSE LET url0 == parsed.url
                 url1 ==
                    IF IsSome(with_path)
                    THEN LET path == with_path[1]
                             trimmed_path == TrimStartMatches(path, "/")
                             new_path == TrimEndMatches(url0.path, "/")
                                            \o <<"/">> \o trimmed_path
                         IN  SetPath(url0, new_path)
                    ELSE url0
             IN  [ok |-> TRUE, err |-> "",
                  url |-> AppendPair(url1, <<"apikey">>, api_key)]

----------------------------------------------------------------------------
(* serde_json::from_str::<models::DetailsResponse>: a JSON reader over the  *)
(* body's tokens, then the derived Deserialize of the struct.  A JSON      *)
(* string is a quote token, its content, a quote token.                    *)

Q == "\""

\* A JSON value: t is its type, s the text of a scalar, m the members of an
\* object in the order read.
JVal(t, s, m) == [t |-> t, s |-> s, m |-> m]

JFail == [ok |-> FALSE, val |-> JVal("null", <<>>, <<>>), rest |-> <<>>]

JOk(val, rest) == [ok |-> TRUE, val |-> val, rest |-> rest]

IsNumber(tok) == tok \in {"0", "1", "2", "3", "4", "5", "6", "7", "8", "9"}

RECURSIVE SkipWs(_)
SkipWs(toks) ==
    IF Len(toks) > 0 /\ Head(toks) = " " THEN SkipWs(Tail(toks)) ELSE toks

ParseString(toks) ==
    IF Len(toks) = 0 \/ toks[1] # Q THEN JFail
    ELSE LET closing == {i \in 2..Len(toks) : toks[i] = Q}
         IN  IF closing = {} THEN JFail
             ELSE LET close == CHOOSE i \in closing : \A j \in closing : i <= j
                  IN  JOk(JVal("str", SubSeq(toks, 2, close - 1), <<>>),
                          SubSeq(toks, close + 1, Len(toks)))

RECURSIVE ParseValue(_)
RECURSIVE ParseMembers(_, _)
ParseValue(toks0) ==
    LET toks == SkipWs(toks0)
    IN  IF Len(toks) = 0 THEN JFail
        ELSE IF toks[1] = "{"
        THEN LET r == SkipWs(Tail(toks))
             IN  IF Len(r) > 0 /\ r[1] = "}"
                 THEN JOk(JVal("obj", <<>>, <<>>), Tail(r))
                 ELSE ParseMembers(r, <<>>)
        ELSE IF toks[1] = Q THEN ParseString(toks)
        ELSE IF IsNumber(toks[1])
        THEN JOk(JVal("num", <<toks[1]>>, <<>>), Tail(toks))
        ELSE IF toks[1] = "null"
        THEN JOk(JVal("null", <<>>, <<>>), Tail(toks))
        ELSE IF toks[1] \in {"true", "false"}
        THEN JOk(JVal("bool", <<toks[1]>>, <<>>), Tail(toks))
        ELSE JFail

ParseMembers(toks, acc) ==
    LET k == ParseString(toks)
    IN  IF ~k.ok THEN JFail
        ELSE LET r1 == SkipWs(k.rest)
             IN  IF Len(r1) = 0 \/ r1[1] # ":" THEN JFail
                 ELSE LET v == ParseValue(Tail(r1))
                      IN  IF ~v.ok THEN JFail
                          ELSE LET r2 == SkipWs(v.rest)
                                   acc2 == Append(acc, [k |-> k.val.s,
                                                        v |-> v.val])
                               IN  IF Len(r2) = 0 THEN JFail
                                   ELSE IF r2[1] = ","
                                   THEN ParseMembers(SkipWs(Tail(r2)), acc2)
                                   ELSE IF r2[1] = "}"
                                   THEN JOk(JVal("obj", <<>>, acc2), Tail(r2))
                                   ELSE JFail

\* HashMap<String, Value> of an object's members: a later duplicate key
\* replaces an earlier one.
MapOf(members) ==
    [key \in {members[i].k : i \in 1..Len(members)} |->
        LET last == CHOOSE i \in 1..Len(members) :
                        /\ members[i].k = key
                        /\ \A j \in 1..Len(members) :
                              members[j].k = key => j <= i
        IN  members[last].v]

NoResponse == [data |-> <<>>, meta |-> None]

\* The derived Deserialize of DetailsResponse from a JSON object: `data` is
\* required and must be an object; `meta` is an Option, absent or null gives
\* None; a repeated field is an error; other keys are ignored.
DeserializeMetaRequired(val) ==
    LET idx(name) == {i \in 1..Len(val.m) : val.m[i].k = <<name>>}
        field(name) == val.m[CHOOSE i \in idx(name) : TRUE].v
    IN  IF \/ val.t # "obj"
           \/ Cardinality(idx("data")) # 1
           \/ Cardinality(idx("meta")) # 1
           \/ field("data").t # "obj"
           \/ field("meta").t # "obj"
        THEN [ok |-> FALSE, value |-> NoResponse]
        ELSE [ok |-> TRUE,
              value |-> [data |-> MapOf(field("data").m),
                         meta |-> Some(MapOf(field("meta").m))]]

DetailsResponse(val) ==
    LET idx(name) == {i \in 1..Len(val.m) : val.m[i].k = <<name>>}
        field(name) == val.m[CHOOSE i \in idx(name) : TRUE].v
    IN  IF \/ val.t # "obj"
           \/ Cardinality(idx("data")) # 1
           \/ Cardinality(idx("meta")) > 1
           \/ field("data").t # "obj"
           \/ /\ idx("meta") # {}
              /\ field("meta").t \notin {"obj", "null"}
        THEN [ok |-> FALSE, value |-> NoResponse]
        ELSE [ok |-> TRUE,
              value |-> [data |-> MapOf(field("data").m),
                         meta |-> IF idx("meta") = {} \/ field("meta").t = "null"
                                  THEN None
                                  ELSE Some(MapOf(field("meta").m))]]

from_str(body) ==
    LET v == ParseValue(body)
    IN  IF v.ok /\ Len(SkipWs(v.rest)) = 0
        THEN DetailsResponse(v.val)
        ELSE [ok |-> FALSE, value |-> NoResponse]

----------------------------------------------------------------------------
(* The client: Currencyapi::new and the six request methods.               *)

I8Min == -128

I8Max == 127

RECURSIVE NatToString(_)
NatToString(n) ==
    LET digit == <<"0", "1", "2", "3", "4", "5", "6", "7", "8", "9">>
    IN  IF n < 10 THEN <<digit[n + 1]>>
        ELSE Append(NatToString(n \div 10), digit[(n % 10) + 1])

\* i8::to_string: the decimal digits, after a "-" when negative.
I8ToString(v) == IF v < 0 THEN <<"-">> \o NatToString(-v) ELSE NatToString(v)

\* Settings { api_key: String::from(api_key) }
NewSettingsDefaulted(api_key) ==
    [api_key |-> IF Len(api_key) = 0 THEN <<"demo">> ELSE api_key]

NewSettings(api_key) == [api_key |-> api_key]

\* Currencyapi::new when construct_client builds the HTTP client.
New(api_key) ==
    /\ IsNone(settings)
    /\ settings' = Some(NewSettings(api_key))
    /\ newArg' = Some(api_key)
    /\ newErr' = None
    /\ UNCHANGED <<pc, call, request, gets, steps, served, result>>
    /\ UNCHANGED builderVars

\* Currencyapi::new when Client::builder().build() fails: no client exists.
NewFails(api_key) ==
    /\ IsNone(settings)
    /\ IsNone(newErr)
    /\ newErr' = Some("ClientConstruction")
    /\ UNCHANGED <<settings, newArg, pc, call, request, gets, steps, served,
                   result>>
    /\ UNCHANGED builderVars

NoCall ==
    [op |-> "", base_currency |-> <<>>, date |-> <<>>, value |-> 0,
     currencies |-> <<>>, datetime_start |-> <<>>, datetime_end |-> <<>>,
     accuracy |-> <<>>]

NoResult ==
    [kind |-> "", source |-> "", body |-> <<>>, value |-> NoResponse]

Ok(value) == [NoResult EXCEPT !.kind = "Ok", !.value = value]

RequestError(source) ==
    [NoResult EXCEPT !.kind = "RequestError", !.source = source]

ResponseParsingError(body) ==
    [NoResult EXCEPT !.kind = "ResponseParsingError", !.body = body]

UrlConstructionError == [NoResult EXCEPT !.kind = "UrlConstruction"]

\* The part of a request method before its first await: the `?` on the URL
\* builder's result, then client.get(url).send() issues the GET.
Issue(t, c, built, url) ==
    /\ IsSome(settings)
    /\ pc[t] = "idle"
    /\ call' = [call EXCEPT ![t] = c]
    /\ IF built.ok
       THEN /\ pc' = [pc EXCEPT ![t] = "sending"]
            /\ request' = [request EXCEPT ![t] = Some(url)]
            /\ gets' = [gets EXCEPT ![t] = 1]
            /\ steps' = [steps EXCEPT ![t] = <<"build", "get">>]
            /\ UNCHANGED result
       ELSE /\ pc' = [pc EXCEPT ![t] = "done"]
            /\ steps' = [steps EXCEPT ![t] = <<"build">>]
            /\ result' = [result EXCEPT ![t] = Some(UrlConstructionError)]
            /\ UNCHANGED <<request, gets>>
    /\ UNCHANGED <<settings, newArg, newErr, served>>
    /\ UNCHANGED builderVars

\* The key a request method reads: &self.settings.api_key
ApiKey == IF IsSome(settings) THEN settings[1].api_key ELSE <<>>

status(t) ==
    LET built == construct_base_url(ApiKey, Some(<<"status">>))
    IN  Issue(t, [NoCall EXCEPT !.op = "status"], built, built.url)

currencies(t) ==
    LET built == construct_base_url(ApiKey, Some(<<"currencies">>))
    IN  Issue(t, [NoCall EXCEPT !.op = "currencies"], built, built.url)

latest(t, base_currency, currencies_arg) ==
    LET built == construct_base_url(ApiKey, Some(<<"latest">>))
        u1 == AppendPair(built.url, <<"base_currency">>, base_currency)
        u2 == AppendPair(u1, <<"currencies">>, currencies_arg)
    IN  Issue(t, [NoCall EXCEPT !.op = "latest",
                                !.base_currency = base_currency,
                                !.currencies = currencies_arg],
              built, u2)

historical(t, base_currency, date, currencies_arg) ==
    LET built == construct_base_url(ApiKey, Some(<<"historical">>))
        u1 == AppendPair(built.url, <<"base_currency">>, base_currency)
        u2 == AppendPair(u1, <<"date">>, date)
        u3 == AppendPair(u2, <<"currencies">>, currencies_arg)
    IN  Issue(t, [NoCall EXCEPT !.op = "historical",
                                !.base_currency = base_currency,
                                !.date = date,
                                !.currencies = currencies_arg],
              built, u3)

convertValidating(t, base_currency, date, value, currencies_arg) ==
    LET built == construct_base_url(ApiKey, Some(<<"convert">>))
        u1 == AppendPair(built.url, <<"base_currency">>, base_currency)
        u2 == AppendPair(u1, <<"date">>, date)
        u3 == AppendPair(u2, <<"value">>, I8ToString(value))
        u4 == AppendPair(u3, <<"currencies">>, currencies_arg)
        valid == value >= 0 /\ Len(base_currency) > 0
    IN  Issue(t, [NoCall EXCEPT !.op = "convert",
                                !.base_currency = base_currency,
                                !.date = date,
                                !.value = value,
                                !.currencies = currencies_arg],
              [built EXCEPT !.ok = valid], u4)

convert(t, base_currency, date, value, currencies_arg) ==
    LET built == construct_base_url(ApiKey, Some(<<"convert">>))
        u1 == AppendPair(built.url, <<"base_currency">>, base_currency)
        u2 == AppendPair(u1, <<"date">>, date)
        u3 == AppendPair(u2, <<"value">>, I8ToString(value))
        u4 == AppendPair(u3, <<"currencies">>, currencies_arg)
    IN  Issue(t, [NoCall EXCEPT !.op = "convert",
                                !.base_currency = base_currency,
                                !.date = date,
                                !.value = value,
                                !.currencies = currencies_arg],
              built, u4)

rangeSwapped(t, base_currency, datetime_start, datetime_end, currencies_arg, accuracy) ==
    LET built == construct_base_url(ApiKey, Some(<<"range">>))
        u1 == AppendPair(built.url, <<"base_currency">>, base_currency)
        u2 == AppendPair(u1, <<"datetime_start">>, datetime_start)
        u3 == AppendPair(u2, <<"datetime_end">>, datetime_end)
        u4 == AppendPair(u3, <<"accuracy">>, currencies_arg)
        u5 == AppendPair(u4, <<"currencies">>, accuracy)
    IN  Issue(t, [NoCall EXCEPT !.op = "range",
                                !.base_currency = base_currency,
                                !.datetime_start = datetime_start,
                                !.datetime_end = datetime_end,
                                !.currencies = currencies_arg,
                                !.accuracy = accuracy],
              built, u5)

range(t, base_currency, datetime_start, datetime_end, currencies_arg, accuracy) ==
    LET built == construct_base_url(ApiKey, Some(<<"range">>))
        u1 == AppendPair(built.url, <<"base_currency">>, base_currency)
        u2 == AppendPair(u1, <<"datetime_start">>, datetime_start)
        u3 == AppendPair(u2, <<"datetime_end">>, datetime_end)
        u4 == AppendPair(u3, <<"accuracy">>, accuracy)
        u5 == AppendPair(u4, <<"currencies">>, currencies_arg)
    IN  Issue(t, [NoCall EXCEPT !.op = "range",
                                !.base_currency = base_currency,
                                !.datetime_start = datetime_start,
                                !.datetime_end = datetime_end,
                                !.currencies = currencies_arg,
                                !.accuracy = accuracy],
              built, u5)

\* .send().await returned a response: its status line and headers are in,
\* its body is still to be read.  `intact` says whether the body transfer
\* will complete.
SendOk(t, reply) ==
    /\ pc[t] = "sending"
    /\ pc' = [pc EXCEPT ![t] = "reading"]
    /\ served' = [served EXCEPT ![t] = Some(reply)]
    /\ UNCHANGED <<settings, newArg, newErr, call, request, gets, steps,
                   result>>
    /\ UNCHANGED builderVars

\* .send().await failed (connection, TLS, timeout): map_err, then `?`.
SendErrRetry(t) ==
    /\ pc[t] = "sending"
    /\ gets[t] < 2
    /\ gets' = [gets EXCEPT ![t] = @ + 1]
    /\ steps' = [steps EXCEPT ![t] = Append(@, "get")]
    /\ UNCHANGED <<settings, newArg, newErr, pc, call, request, served,
                   result>>
    /\ UNCHANGED builderVars

SendErr(t) ==
    /\ pc[t] = "sending"
    /\ pc' = [pc EXCEPT ![t] = "done"]
    /\ result' = [result EXCEPT ![t] = Some(RequestError("send"))]
    /\ UNCHANGED <<settings, newArg, newErr, call, request, gets, steps,
                   served>>
    /\ UNCHANGED builderVars

\* serde_json::from_str(&res_body).map_err(|_| ResponseParsingError { body })
ParseBodyDropsText(res_body) ==
    LET decoded == from_str(res_body)
    IN  IF decoded.ok THEN Ok(decoded.value)
        ELSE ResponseParsingError(<<>>)

ParseBody(res_body) ==
    LET decoded == from_str(res_body)
    IN  IF decoded.ok THEN Ok(decoded.value)
        ELSE ResponseParsingError(res_body)

\* The response this invocation reads its body from.
ResponseOfAny(t) ==
    LET got == {u \in DOMAIN served : IsSome(served[u])}
    IN  served[CHOOSE u \in got : \A w \in got : u <= w][1]

ResponseOf(t) == served[t][1]

\* .text().await returned the whole body; it is parsed and the method returns.
TextOkStatusChecked(t) ==
    /\ pc[t] = "reading"
    /\ ResponseOf(t).intact
    /\ pc' = [pc EXCEPT ![t] = "done"]
    /\ IF ResponseOf(t).status >= 400
       THEN /\ steps' = [steps EXCEPT ![t] = Append(@, "read")]
            /\ result' = [result EXCEPT ![t] = Some(RequestError("status"))]
       ELSE /\ steps' = [steps EXCEPT ![t] = @ \o <<"read", "parse">>]
            /\ result' =
                  [result EXCEPT ![t] = Some(ParseBody(ResponseOf(t).body))]
    /\ UNCHANGED <<settings, newArg, newErr, call, request, gets, served>>
    /\ UNCHANGED builderVars

TextOk(t) ==
    /\ pc[t] = "reading"
    /\ ResponseOf(t).intact
    /\ pc' = [pc EXCEPT ![t] = "done"]
    /\ steps' = [steps EXCEPT ![t] = @ \o <<"read", "parse">>]
    /\ result' = [result EXCEPT ![t] = Some(ParseBody(ResponseOf(t).body))]
    /\ UNCHANGED <<settings, newArg, newErr, call, request, gets, served>>
    /\ UNCHANGED builderVars

\* .text().await failed while the body was being read: map_err, then `?`.
TextErr(t) ==
    /\ pc[t] = "reading"
    /\ ~ResponseOf(t).intact
    /\ pc' = [pc EXCEPT ![t] = "done"]
    /\ steps' = [steps EXCEPT ![t] = Append(@, "read")]
    /\ result' = [result EXCEPT ![t] = Some(RequestError("body"))]
    /\ UNCHANGED <<settings, newArg, newErr, call, request, gets, served>>
    /\ UNCHANGED builderVars

\* The caller has the method's result; the slot is free for its next call.
Return(t) ==
    /\ pc[t] = "done"
    /\ pc' = [pc EXCEPT ![t] = "idle"]
    /\ call' = [call EXCEPT ![t] = NoCall]
    /\ request' = [request EXCEPT ![t] = None]
    /\ gets' = [gets EXCEPT ![t] = 0]
    /\ steps' = [steps EXCEPT ![t] = <<>>]
    /\ served' = [served EXCEPT ![t] = None]
    /\ result' = [result EXCEPT ![t] = None]
    /\ UNCHANGED <<settings, newArg, newErr>>
    /\ UNCHANGED builderVars

----------------------------------------------------------------------------
(* Inputs and specifications of the client.                                *)

ClientKeys == {<<>>, <<"abc">>, <<"k", "&", "apikey", "=", "x", " ">>}

ArgVals == {<<>>, <<"EUR", ",", "GBP">>, <<"&", "apikey", "=", "x">>}

I8Samples == {I8Min, -1, 0, 9, 10, I8Max}

Body_DataMeta ==
    <<"{", Q, "data", Q, ":", "{", Q, "USD", Q, ":", "1", "}", ",",
      Q, "meta", Q, ":", "{", Q, "last_updated_at", Q, ":", Q, "x", Q, "}",
      "}">>

Body_DataOnly == <<"{", Q, "data", Q, ":", "{", "}", "}">>

Body_NotJson == <<"not", " ", "json">>

Body_Empty == <<>>

Body_NoData == <<"{", Q, "message", Q, ":", Q, "x", Q, "}">>

Body_DataNull == <<"{", Q, "data", Q, ":", "null", "}">>

Body_MetaNull ==
    <<"{", Q, "data", Q, ":", "{", Q, "USD", Q, ":", "1", "}", ",",
      Q, "meta", Q, ":", "null", "}">>

Body_MetaNumber ==
    <<"{", Q, "data", Q, ":", "{", "}", ",", Q, "meta", Q, ":", "1", "}">>

Bodies ==
    {Body_DataMeta, Body_DataOnly, Body_NotJson, Body_Empty, Body_NoData,
     Body_DataNull, Body_MetaNull, Body_MetaNumber}

Statuses == {200, 422}

Replies == [status : Statuses, body : Bodies, intact : BOOLEAN]

ClientInit(T) ==
    /\ settings = None
    /\ newArg = None
    /\ newErr = None
    /\ pc = [t \in T |-> "idle"]
    /\ call = [t \in T |-> NoCall]
    /\ request = [t \in T |-> None]
    /\ gets = [t \in T |-> 0]
    /\ steps = [t \in T |-> <<>>]
    /\ served = [t \in T |-> None]
    /\ result = [t \in T |-> None]
    /\ ukey = <<>>
    /\ upath = None
    /\ uout = None

Init == ClientInit({1})

Next ==
    \/ \E k \in ClientKeys : New(k)
    \/ \E k \in ClientKeys : NewFails(k)
    \/ \E t \in DOMAIN pc : status(t)
    \/ \E t \in DOMAIN pc : currencies(t)
    \/ \E t \in DOMAIN pc : \E b, c \in ArgVals : latest(t, b, c)
    \/ \E t \in DOMAIN pc : \E b, d, c \in ArgVals : historical(t, b, d, c)
    \/ \E t \in DOMAIN pc : \E b, d, c \in ArgVals : \E v \in I8Samples :
          convert(t, b, d, v, c)
    \/ \E t \in DOMAIN pc : \E b, s, e, c, a \in ArgVals :
          range(t, b, s, e, c, a)
    \/ \E t \in DOMAIN pc : \E r \in Replies : SendOk(t, r)
    \/ \E t \in DOMAIN pc : SendErr(t)
    \/ \E t \in DOMAIN pc : TextOk(t)
    \/ \E t \in DOMAIN pc : TextErr(t)
    \/ \E t \in DOMAIN pc : Return(t)

Spec == Init /\ [][Next]_vars

----------------------------------------------------------------------------
(* Concurrent calls on one client: NumTasks call slots share the Settings. *)
(* Every argument of slot t is the text TaskArg(t) and its `value` is t,   *)
(* so that the calls of different slots differ.                            *)

TaskArg(t) == [i \in 1..t |-> "a"]

ConcKeys == {<<"abc">>}

ConcReplies ==
    {[status |-> 200, body |-> Body_DataMeta, intact |-> TRUE],
     [status |-> 200, body |-> Body_DataOnly, intact |-> TRUE],
     [status |-> 422, body |-> Body_NoData, intact |-> TRUE],
     [status |-> 200, body |-> Body_DataOnly, intact |-> FALSE]}

InitConc == ClientInit(1..NumTasks)

NextConc ==
    \/ \E k \in ConcKeys : New(k)
    \/ \E t \in DOMAIN pc : status(t)
    \/ \E t \in DOMAIN pc : currencies(t)
    \/ \E t \in DOMAIN pc : latest(t, TaskArg(t), TaskArg(t))
    \/ \E t \in DOMAIN pc : historical(t, TaskArg(t), TaskArg(t), TaskArg(t))
    \/ \E t \in DOMAIN pc :
          convert(t, TaskArg(t), TaskArg(t), t, TaskArg(t))
    \/ \E t \in DOMAIN pc :
          range(t, TaskArg(t), TaskArg(t), TaskArg(t), TaskArg(t), TaskArg(t))
    \/ \E t \in DOMAIN pc : \E r \in ConcReplies : SendOk(t, r)
    \/ \E t \in DOMAIN pc : SendErr(t)
    \/ \E t \in DOMAIN pc : TextOk(t)
    \/ \E t \in DOMAIN pc : TextErr(t)
    \/ \E t \in DOMAIN pc : Return(t)

SpecConc == InitConc /\ [][NextConc]_vars

----------------------------------------------------------------------------
(* The URL builder on its own: the unit tests of src/utils.rs call         *)
(* construct_base_url with a key and an optional path.                     *)

KeyChars == {"k", "&", " "}

PathChars == {"a", "/", ".", "?"}

BuilderKeys == Texts(KeyChars, MaxKeyLen)

BuilderPaths ==
    {None} \cup {Some(p) : p \in Texts(PathChars, MaxPathLen)}
           \cup {Some(<<"test", "/", "path">>),
                 Some(<<"/", "test", "/", "path">>)}

ClientIdle ==
    /\ settings = None
    /\ newArg = None
    /\ newErr = None
    /\ pc = <<>>
    /\ call = <<>>
    /\ request = <<>>
    /\ gets = <<>>
    /\ steps = <<>>
    /\ served = <<>>
    /\ result = <<>>

InitUrl ==
    /\ ClientIdle
    /\ ukey \in BuilderKeys
    /\ upath \in BuilderPaths
    /\ uout = None

BuildUrl ==
    /\ IsNone(uout)
    /\ uout' = Some(construct_base_url(ukey, upath))
    /\ UNCHANGED <<ukey, upath>>
    /\ UNCHANGED clientVars

NextUrl == BuildUrl

SpecUrl == InitUrl /\ [][NextUrl]_vars

----------------------------------------------------------------------------
(* Reading a URL back: what a server sees in a query string.               *)

RECURSIVE SplitOn(_, _)
SplitOn(s, c) ==
    LET hits == {i \in 1..Len(s) : s[i] = c}
    IN  IF hits = {} THEN <<s>>
        ELSE LET i == CHOOSE h \in hits : \A g \in hits : h <= g
             IN  <<SubSeq(s, 1, i - 1)>> \o SplitOn(SubSeq(s, i + 1, Len(s)), c)

RECURSIVE FormDecode(_)
FormDecode(s) ==
    IF Len(s) = 0 THEN <<>>
    ELSE IF s[1] = "+" THEN <<" ">> \o FormDecode(Tail(s))
    ELSE IF /\ s[1] = "%"
            /\ Len(s) >= 3
            /\ \E c \in DOMAIN PctCode : PctCode[c] = <<s[2], s[3]>>
    THEN <<CHOOSE c \in DOMAIN PctCode : PctCode[c] = <<s[2], s[3]>> >>
            \o FormDecode(SubSeq(s, 4, Len(s)))
    ELSE <<s[1]>> \o FormDecode(Tail(s))

\* The (name, value) pairs of a query string, in order.
QueryPairs(q) ==
    LET pieces == SplitOn(q, "&")
        kept == SelectSeq(pieces, LAMBDA x : Len(x) > 0)
        pair(x) == LET nv == SplitOn(x, "=")
                       after == SubSeq(x, Len(nv[1]) + 2, Len(x))
                   IN  <<FormDecode(nv[1]), FormDecode(after)>>
    IN  [i \in 1..Len(kept) |-> pair(kept[i])]

Tasks == DOMAIN pc

GivenKey == newArg[1]

RequestPairs(t) == QueryPairs(request[t][1].query[1])

\* The query parameters an operation's documentation lists, with the values
\* of the arguments of the same names.
ExpectedParams(c) ==
    CASE c.op = "latest" ->
            << <<<<"base_currency">>, c.base_currency>>,
               <<<<"currencies">>, c.currencies>> >>
      [] c.op = "historical" ->
            << <<<<"base_currency">>, c.base_currency>>,
               <<<<"date">>, c.date>>,
               <<<<"currencies">>, c.currencies>> >>
      [] c.op = "convert" ->
            << <<<<"base_currency">>, c.base_currency>>,
               <<<<"date">>, c.date>>,
               <<<<"value">>, I8ToString(c.value)>>,
               <<<<"currencies">>, c.currencies>> >>
      [] c.op = "range" ->
            << <<<<"base_currency">>, c.base_currency>>,
               <<<<"datetime_start">>, c.datetime_start>>,
               <<<<"datetime_end">>, c.datetime_end>>,
               <<<<"accuracy">>, c.accuracy>>,
               <<<<"currencies">>, c.currencies>> >>
      [] OTHER -> <<>>

\* The body read by a finished invocation whose transfer completed.
BodyRead(t) ==
    /\ pc[t] = "done"
    /\ IsSome(served[t])
    /\ served[t][1].intact

----------------------------------------------------------------------------
(* C1: every request issued carries exactly one query parameter named     *)
(* apikey, and its value is the key given to Currencyapi::new.             *)
C1_ApiKeyOnceWithGivenKey ==
    \A t \in Tasks :
        IsSome(request[t]) =>
            /\ IsSome(request[t][1].query)
            /\ LET pairs == RequestPairs(t)
                   at == {i \in 1..Len(pairs) : pairs[i][1] = <<"apikey">>}
               IN  /\ Cardinality(at) = 1
                   /\ \A i \in at : pairs[i][2] = GivenKey

C1_Witness ==
    \E t \in Tasks :
        /\ pc[t] = "done"
        /\ call[t].op = "range"
        /\ call[t].currencies = <<"&", "apikey", "=", "x">>
        /\ GivenKey = <<"k", "&", "apikey", "=", "x", " ">>

----------------------------------------------------------------------------
(* C2 as stated: without a path the URL path is /v3/, with a path p it is  *)
(* /v3/ followed by p without its leading slashes, and the query string is *)
(* exactly apikey=<key>.                                                   *)
AfterLeadingSlashes(p) ==
    LET others == {i \in 1..Len(p) : p[i] # "/"}
    IN  IF others = {} THEN <<>>
        ELSE SubSeq(p, CHOOSE i \in others : \A j \in others : i <= j, Len(p))

PlainPath(p) ==
    /\ \A i \in 1..Len(p) : p[i] \notin {" ", "#", "?", "%", "\\"}
    /\ LET segs == SplitOn(p, "/")
       IN  \A i \in 1..Len(segs) : segs[i] \notin {<<".">>, <<".", ".">>}

\* The form-urlencoded text of the characters keys are drawn from.
KeyCharText(c) ==
    CASE c = "&" -> <<"%", "2", "6">>
      [] c = " " -> <<"+">>
      [] OTHER -> <<c>>

----------------------------------------------------------------------------
(* C3: each operation requests /v3/<its own path>, with apikey as the      *)
(* first query parameter and then its own parameters in the documented     *)
(* order, each carrying the value of the argument of the same name.        *)
C3_PathAndParamOrder ==
    \A t \in Tasks :
        IsSome(request[t]) =>
            /\ call[t].op \in {"status", "currencies", "latest", "historical",
                               "convert", "range"}
            /\ request[t][1].scheme = "https"
            /\ request[t][1].host = "api.currencyapi.com"
            /\ request[t][1].path = <<"/", "v3", "/", call[t].op>>
            /\ RequestPairs(t) =
                  << <<<<"apikey">>, GivenKey>> >> \o ExpectedParams(call[t])
            /\ ( /\ call[t].op = "latest"
                 /\ GivenKey = <<"abc">>
                 /\ call[t].base_currency = <<>>
                 /\ call[t].currencies = <<"EUR", ",", "GBP">> ) =>
                  request[t][1].query[1] =
                      <<"apikey", "=", "abc", "&", "base_currency", "=", "&",
                        "currencies", "=", "EUR", "%", "2", "C", "GBP">>

C3_Witness ==
    \E t \in Tasks :
        /\ IsSome(request[t])
        /\ call[t].op = "range"
        /\ call[t].currencies = <<"EUR", ",", "GBP">>
        /\ call[t].accuracy = <<>>
        /\ call[t].datetime_start = <<"&", "apikey", "=", "x">>

----------------------------------------------------------------------------
(* C4: when the body that was read does not decode, the operation returns  *)
(* ResponseParsingError whose body is exactly the text received.           *)
C4_ParseErrorCarriesBody ==
    \A t \in Tasks :
        (BodyRead(t) /\ ~from_str(served[t][1].body).ok) =>
            /\ IsSome(result[t])
            /\ result[t][1].kind = "ResponseParsingError"
            /\ result[t][1].body = served[t][1].body
            /\ result[t][1].value = NoResponse

C4_Witness ==
    \E t \in Tasks :
        /\ BodyRead(t)
        /\ served[t][1].body = Body_NotJson
        /\ result[t][1].kind = "ResponseParsingError"
        /\ result[t][1].body = <<"not", " ", "json">>

----------------------------------------------------------------------------
(* C5: an invocation runs build URL, GET, read body, parse in that order   *)
(* and issues exactly one GET; a failed step ends it with no later step,   *)
(* and a failure in sending or in reading the body is a RequestError.      *)
IsPrefix(a, b) == Len(a) <= Len(b) /\ a = SubSeq(b, 1, Len(a))

C5_OneGetStepsInOrder ==
    \A t \in Tasks :
        /\ IsPrefix(steps[t], <<"build", "get", "read", "parse">>)
        /\ gets[t] <= 1
        /\ pc[t] # "idle" => gets[t] = 1
        /\ pc[t] = "idle" => gets[t] = 0 /\ steps[t] = <<>>
        /\ pc[t] \in {"sending", "reading"} =>
              steps[t] = <<"build", "get">> /\ IsNone(result[t])
        /\ pc[t] = "done" =>
              /\ IsSome(result[t])
              /\ IsNone(served[t]) =>
                    /\ result[t][1] = RequestError("send")
                    /\ steps[t] = <<"build", "get">>
              /\ (IsSome(served[t]) /\ ~served[t][1].intact) =>
                    /\ result[t][1] = RequestError("body")
                    /\ steps[t] = <<"build", "get", "read">>
              /\ (IsSome(served[t]) /\ served[t][1].intact) =>
                    /\ result[t][1].kind \in {"Ok", "ResponseParsingError"}
                    /\ steps[t] = <<"build", "get", "read", "parse">>

C5_Witness ==
    \E t \in Tasks :
        /\ pc[t] = "done"
        /\ result[t][1] = RequestError("body")
        /\ gets[t] = 1

----------------------------------------------------------------------------
(* C6: decoding keeps `data` as the map under the top-level key data, sets *)
(* meta to Some(map) when a top-level meta object is present and to None   *)
(* when the meta key is absent; a body with data and no meta decodes.      *)
C6_DataAndOptionalMeta ==
    \A t \in Tasks :
        BodyRead(t) =>
            LET body == served[t][1].body
                r == result[t][1]
                top == ParseValue(body).val
                has(name) == \E i \in 1..Len(top.m) : top.m[i].k = <<name>>
                the(name) ==
                    top.m[CHOOSE i \in 1..Len(top.m) : top.m[i].k = <<name>>].v
            IN  /\ body = Body_DataMeta =>
                      /\ r.kind = "Ok"
                      /\ r.value.data = (<<"USD">> :> JVal("num", <<"1">>, <<>>))
                      /\ r.value.meta =
                            Some(<<"last_updated_at">> :>
                                    JVal("str", <<"x">>, <<>>))
                /\ body = Body_DataOnly =>
                      r = Ok([data |-> <<>>, meta |-> None])
                /\ r.kind = "Ok" =>
                      /\ has("data")
                      /\ DOMAIN r.value.data =
                            {the("data").m[i].k : i \in 1..Len(the("data").m)}
                      /\ ~has("meta") => IsNone(r.value.meta)
                      /\ (has("meta") /\ the("meta").t = "obj") =>
                            /\ IsSome(r.value.meta)
                            /\ DOMAIN r.value.meta[1] =
                                  {the("meta").m[i].k :
                                      i \in 1..Len(the("meta").m)}

C6_Witness ==
    \E t \in Tasks :
        /\ BodyRead(t)
        /\ served[t][1].body = Body_DataOnly
        /\ result[t][1].kind = "Ok"
        /\ IsNone(result[t][1].value.meta)

----------------------------------------------------------------------------
(* C7 as stated: a constructed client never holds an empty API key and no  *)
(* request is sent with an empty apikey value.                             *)
C7_Original ==
    /\ IsSome(settings) => Len(settings[1].api_key) > 0
    /\ \A t \in Tasks :
          IsSome(request[t]) =>
              \A i \in 1..Len(RequestPairs(t)) :
                  RequestPairs(t)[i][1] = <<"apikey">>
                      => Len(RequestPairs(t)[i][2]) > 0

(* C7, amended: the API key held in Settings is in every state of a        *)
(* constructed client exactly the string given to Currencyapi::new, which  *)
(* new accepts without validation, the empty string included; the key held *)
(* and the apikey value of every request are empty exactly when the string *)
(* given was empty.                                                        *)
C7_KeyIsTheGivenString ==
    /\ IsSome(settings) =>
          /\ IsSome(newArg)
          /\ settings[1].api_key = GivenKey
          /\ Len(settings[1].api_key) = 0 <=> Len(GivenKey) = 0
    /\ IsNone(settings) => \A k \in ClientKeys : ENABLED New(k)
    /\ \A t \in Tasks :
          IsSome(request[t]) =>
              /\ IsSome(settings)
              /\ RequestPairs(t)[1] = <<<<"apikey">>, GivenKey>>

C7_Witness ==
    /\ IsSome(settings)
    /\ settings[1].api_key = <<>>
    /\ \E t \in Tasks :
          /\ pc[t] = "done"
          /\ request[t][1].query[1] = <<"apikey", "=">>

----------------------------------------------------------------------------
(* C8: no operation validates its arguments: whatever the argument values, *)
(* an invocation issues its GET and returns nothing before it; convert     *)
(* sends `value` as its decimal text.                                      *)
I8Text(v) ==
    CASE v = -128 -> <<"-", "1", "2", "8">>
      [] v = -1 -> <<"-", "1">>
      [] v = 0 -> <<"0">>
      [] v = 9 -> <<"9">>
      [] v = 10 -> <<"1", "0">>
      [] v = 127 -> <<"1", "2", "7">>

C8_NoLocalValidation ==
    \A t \in Tasks :
        /\ pc[t] # "idle" =>
              /\ gets[t] = 1
              /\ IsSome(request[t])
              /\ Len(steps[t]) >= 2 /\ steps[t][2] = "get"
              /\ IsSome(result[t]) => result[t][1].kind # "UrlConstruction"
        /\ (IsSome(request[t]) /\ call[t].op = "convert") =>
              /\ Len(RequestPairs(t)) = 5
              /\ RequestPairs(t)[4] = <<<<"value">>, I8Text(call[t].value)>>

C8_Witness ==
    \E t \in Tasks :
        /\ pc[t] = "sending"
        /\ call[t].op = "convert"
        /\ call[t].value = I8Min
        /\ call[t].base_currency = <<>>
        /\ call[t].date = <<"&", "apikey", "=", "x">>
        /\ gets[t] = 1

----------------------------------------------------------------------------
(* C9: concurrent calls on one client do not interfere: in every           *)
(* interleaving each call's request URL comes from its own arguments and   *)
(* the construction-time key, its result from the reply to its own         *)
(* request, and the shared Settings stays as constructed.                  *)
OwnOutcome(t) ==
    IF IsNone(served[t]) THEN RequestError("send")
    ELSE IF ~served[t][1].intact THEN RequestError("body")
    ELSE IF from_str(served[t][1].body).ok
    THEN Ok(from_str(served[t][1].body).value)
    ELSE ResponseParsingError(served[t][1].body)

C9_NoInterference ==
    /\ IsSome(settings) => settings = Some([api_key |-> GivenKey])
    /\ \A t \in Tasks :
          /\ IsSome(request[t]) =>
                /\ request[t][1].path = <<"/", "v3", "/", call[t].op>>
                /\ RequestPairs(t) =
                      << <<<<"apikey">>, GivenKey>> >>
                         \o ExpectedParams(call[t])
                /\ \A i \in 2..Len(RequestPairs(t)) :
                      RequestPairs(t)[i][2] \in {TaskArg(t), NatToString(t)}
          /\ pc[t] = "done" => result[t] = Some(OwnOutcome(t))
          /\ pc[t] # "done" => IsNone(result[t])

C9_Witness ==
    /\ pc[1] = "done"
    /\ pc[2] = "reading"
    /\ call[1].op = "range"
    /\ call[2].op = "convert"
    /\ result[1][1].kind = "Ok"
    /\ served[1][1].body = Body_DataMeta
    /\ served[2][1].body = Body_NoData

----------------------------------------------------------------------------
(* C10: the HTTP status never decides the outcome: once the body is read,  *)
(* the result is a Response if the body decodes and ResponseParsingError   *)
(* otherwise, whatever the status.                                         *)
C10_StatusNeverDecides ==
    \A t \in Tasks :
        BodyRead(t) =>
            LET r == result[t][1]
                decodes == from_str(served[t][1].body).ok
            IN  /\ r.kind \in {"Ok", "ResponseParsingError"}
                /\ r.kind = "Ok" <=> decodes
                /\ r.source = ""

C10_Witness ==
    \E t \in Tasks :
        /\ BodyRead(t)
        /\ served[t][1].status = 422
        /\ served[t][1].body = Body_DataOnly
        /\ result[t][1].kind = "Ok"

====
